---- MODULE Spec2Model ----
(***************************************************************************)
(* Board hierarchy of the gallery: the boards table (id, parent_id), the   *)
(* board_images junction table, the tree mutations (create, move, merge,   *)
(* delete), the cascading membership insertion, the smart-rule scan and    *)
(* the categorization of analyzed images (rule scan, then the suggestion   *)
(* of the AI service), calls that run side by side, and the board choice   *)
(* of the Telegram bot. Modelled from src/database.py, src/ai_service.py,  *)
(* src/routes/boards.py, src/routes/images/analysis.py and                 *)
(* src/telegram_bot.py.                                                    *)
(***************************************************************************)
EXTENDS Integers, Sequences, FiniteSets, TLC

\* ---------------------------------------------------------------- bounds
MaxBoards == 3      \* boards ever created in Spec
MaxItems == 1       \* image ids used in Spec
MaxDeep == 12       \* boards ever created in SpecDeep (one chain)
MaxRuleBoards == 2  \* boards ever created in SpecRules
MaxCatBoards == 2   \* boards ever created in SpecCat
MaxSuggested == 1   \* length of the board list of a suggestion
MaxWorkers == 2     \* calls in flight at the same time

\* ------------------------------------------------------ program constants
max_depth == 10     \* get_parent_boards: hop limit of the ancestor walk
NULL == 0           \* SQL NULL / Python None for a parent_id

VARIABLES
    boards,         \* ids of the rows of table boards
    parent,         \* boards.parent_id, one entry per row of boards
    board_images,   \* table board_images: <<board_id, image_id>> -> number of rows
    next_id,        \* AUTOINCREMENT sequence of boards.id
    smart_rules,    \* boards.smart_rules of the rows where it is not NULL
    images,         \* table images: tags and description of each image
    last            \* the call that produced this state, and what it returned

vars == <<boards, parent, board_images, next_id, smart_rules, images, last>>

Items == 1..MaxItems

\* ------------------------------------------------------------- helpers
Min(S) == CHOOSE x \in S : \A y \in S : x <= y

RECURSIVE SortedSeq(_)
\* rows come back in rowid order
SortedSeq(S) == IF S = {} THEN <<>> ELSE <<Min(S)>> \o SortedSeq(S \ {Min(S)})

Range(s) == {s[k] : k \in 1..Len(s)}

NoCall == [op |-> "none", b |-> NULL, p |-> NULL, item |-> 0, flag |-> FALSE,
           result |-> "ok", ret |-> 0, subs |-> 0, matched |-> <<>>,
           asked |-> FALSE, reply |-> "", suggestion |-> <<>>, created |-> <<>>,
           todo |-> <<>>, gone |-> {}, returned |-> <<>>, calls |-> <<>>,
           scan_raised |-> FALSE, at_call |-> <<>>]

\* number of rows of board_images for the pair
Rows(bi, b, i) == IF <<b, i>> \in DOMAIN bi THEN bi[<<b, i>>] ELSE 0

\* image ids with at least one row in board b
ItemsOf(bi, b) == {i \in Items : Rows(bi, b, i) > 0}

\* ------------------------------------------------ table board_images
\* INSERT INTO board_images without the UNIQUE(board_id, image_id) constraint
insert_board_image_no_unique(bi, b, i) ==
    [ok |-> TRUE,
     bi |-> IF <<b, i>> \in DOMAIN bi THEN [bi EXCEPT ![<<b, i>>] = @ + 1]
            ELSE bi @@ (<<b, i>> :> 1)]

\* INSERT INTO board_images (board_id, image_id): UNIQUE(board_id, image_id)
\* raises IntegrityError (ok = FALSE); foreign keys are not enforced, the
\* connection never issues PRAGMA foreign_keys = ON
insert_board_image(bi, b, i) ==
    IF <<b, i>> \in DOMAIN bi
    THEN [ok |-> FALSE, bi |-> bi]
    ELSE [ok |-> TRUE, bi |-> bi @@ (<<b, i>> :> 1)]

\* DELETE FROM board_images WHERE board_id = b AND image_id = i
delete_board_image(bi, b, i) ==
    [k \in DOMAIN bi \ {<<b, i>>} |-> bi[k]]

\* ------------------------------------------------ get_parent_boards
RECURSIVE parent_walk(_, _, _, _, _)
\* the while loop of get_parent_boards
parent_walk(current_id, depth, parent_ids, par, bs) ==
    IF ~(depth < max_depth) THEN parent_ids
    ELSE IF current_id \notin bs THEN parent_ids
    ELSE IF par[current_id] = NULL THEN parent_ids
    ELSE parent_walk(par[current_id], depth + 1,
                     Append(parent_ids, par[current_id]), par, bs)

\* get_parent_boards whose loop runs once more than max_depth times
get_parent_boards_one_more(board_id, par, bs) ==
    parent_walk(board_id, 0 - 1, <<>>, par, bs)

get_parent_boards(board_id, par, bs) == parent_walk(board_id, 0, <<>>, par, bs)

\* a call of get_parent_boards on its own
parent_boards_call(board_id) ==
    /\ last' = [NoCall EXCEPT !.op = "parents", !.b = board_id,
                    !.returned = get_parent_boards(board_id, parent, boards)]
    /\ UNCHANGED <<boards, parent, board_images, next_id, smart_rules, images>>

\* ------------------------------------------------ _get_all_sub_boards
RECURSIVE sub_walk(_, _, _, _)
RECURSIVE sub_each(_, _, _, _)
\* one activation of _get_all_sub_boards; fuel counts the activations still
\* allowed on the call stack: a path of more boards than the table holds
\* repeats a board, and the recursion then never returns (RecursionError)
sub_walk(board_id, par, bs, fuel) ==
    IF fuel = 0 THEN [err |-> TRUE, ids |-> <<>>]
    ELSE sub_each(SortedSeq({s \in bs : par[s] = board_id}), par, bs, fuel)

\* the for loop over direct_subs
sub_each(direct_subs, par, bs, fuel) ==
    IF direct_subs = <<>> THEN [err |-> FALSE, ids |-> <<>>]
    ELSE LET sub_id == Head(direct_subs)
             below == sub_walk(sub_id, par, bs, fuel - 1)
             rest == sub_each(Tail(direct_subs), par, bs, fuel)
         IN  IF below.err \/ rest.err THEN [err |-> TRUE, ids |-> <<>>]
             ELSE [err |-> FALSE, ids |-> <<sub_id>> \o below.ids \o rest.ids]

get_all_sub_boards(board_id, par, bs) ==
    sub_walk(board_id, par, bs, Cardinality(bs) + 1)

\* ------------------------------------------------ add_image_to_board
RECURSIVE add_to_parents(_, _, _)
\* the for loop over parent_ids: IntegrityError is swallowed per parent
add_to_parents(bi, parent_ids, image_id) ==
    IF parent_ids = <<>> THEN bi
    ELSE add_to_parents(insert_board_image(bi, Head(parent_ids), image_id).bi,
                        Tail(parent_ids), image_id)

\* board_images after add_image_to_board(board_id, image_id, auto_add_to_parents)
add_image_rows(bi, par, bs, board_id, image_id, auto_add_to_parents) ==
    LET first == insert_board_image(bi, board_id, image_id).bi
    IN  IF auto_add_to_parents
        THEN add_to_parents(first, get_parent_boards(board_id, par, bs), image_id)
        ELSE first

\* ------------------------------------------------ move_board
\* sub_board_ids = [b['id'] for b in all_sub_boards]: _get_all_sub_boards
\* returns a list of ints, so subscripting the first element raises TypeError
sub_board_ids(all_sub_boards) ==
    IF all_sub_boards = <<>> THEN [err |-> FALSE, ids |-> <<>>]
    ELSE [err |-> TRUE, ids |-> <<>>]

\* move_board without the check new_parent_id == board_id
move_board_result_no_self_check(board_id, new_parent_id, par, bs) ==
    IF new_parent_id /= NULL /\ get_all_sub_boards(board_id, par, bs).err
    THEN "RecursionError"
    ELSE IF new_parent_id /= NULL
            /\ sub_board_ids(get_all_sub_boards(board_id, par, bs).ids).err
    THEN "TypeError"
    ELSE IF new_parent_id /= NULL
            /\ new_parent_id \in
                  Range(sub_board_ids(get_all_sub_boards(board_id, par, bs).ids).ids)
    THEN "CycleError"
    ELSE "ok"

\* how move_board ends: "SelfParentError" and "CycleError" are its two
\* ValueErrors (the route answers 400), "RecursionError" is the unbounded
\* recursion of _get_all_sub_boards and "TypeError" the subscript of an int
\* (neither is a ValueError, the route does not catch them), "ok" reaches
\* the UPDATE
move_board_result(board_id, new_parent_id, par, bs) ==
    IF new_parent_id = board_id THEN "SelfParentError"
    ELSE IF new_parent_id /= NULL /\ get_all_sub_boards(board_id, par, bs).err
    THEN "RecursionError"
    ELSE IF new_parent_id /= NULL
            /\ sub_board_ids(get_all_sub_boards(board_id, par, bs).ids).err
    THEN "TypeError"
    ELSE IF new_parent_id /= NULL
            /\ new_parent_id \in
                  Range(sub_board_ids(get_all_sub_boards(board_id, par, bs).ids).ids)
    THEN "CycleError"
    ELSE "ok"

\* UPDATE boards SET parent_id = ? WHERE id = ?
update_parent(par, bs, board_id, new_parent_id) ==
    IF board_id \in bs THEN [par EXCEPT ![board_id] = new_parent_id] ELSE par

move_board(board_id, new_parent_id) ==
    LET result == move_board_result(board_id, new_parent_id, parent, boards)
    IN  /\ parent' = IF result = "ok"
                     THEN update_parent(parent, boards, board_id, new_parent_id)
                     ELSE parent
        /\ last' = [NoCall EXCEPT !.op = "move", !.b = board_id,
                                  !.p = new_parent_id, !.result = result]
        /\ UNCHANGED <<boards, board_images, next_id, smart_rules, images>>

\* ------------------------------------------------ create_board
create_board(parent_id) ==
    /\ boards' = boards \cup {next_id}
    /\ parent' = parent @@ (next_id :> parent_id)
    /\ next_id' = next_id + 1
    /\ last' = [NoCall EXCEPT !.op = "create", !.b = next_id, !.p = parent_id,
                              !.ret = next_id]
    /\ UNCHANGED <<board_images, smart_rules, images>>

\* ------------------------------------------------ delete_board
\* ids of the rows delete_board removes from boards
delete_board_ids(board_id, delete_sub_boards, par, bs) ==
    IF delete_sub_boards
    THEN Range(get_all_sub_boards(board_id, par, bs).ids) \cup {board_id}
    ELSE {board_id}

delete_board(board_id, delete_sub_boards) ==
    LET failed == delete_sub_boards /\ get_all_sub_boards(board_id, parent, boards).err
        gone == IF failed THEN {}
                ELSE delete_board_ids(board_id, delete_sub_boards, parent, boards)
    IN  /\ boards' = boards \ gone
        /\ parent' = [b \in boards \ gone |-> parent[b]]
        /\ last' = [NoCall EXCEPT !.op = "delete", !.b = board_id,
                                  !.flag = delete_sub_boards,
                                  !.result = IF failed THEN "RecursionError" ELSE "ok"]
        /\ smart_rules' = [b \in DOMAIN smart_rules \ gone |-> smart_rules[b]]
        /\ UNCHANGED <<board_images, next_id, images>>

\* ------------------------------------------------ delete_board, one DELETE at a time
Reverse(s) == [k \in 1..Len(s) |-> s[Len(s) + 1 - k]]

\* the DELETE statements with the board itself first and its sub-boards after
delete_order_parent_first(board_id, delete_sub_boards, par, bs) ==
    IF delete_sub_boards
    THEN <<board_id>> \o get_all_sub_boards(board_id, par, bs).ids
    ELSE <<board_id>>

\* the ids delete_board issues a DELETE for, in the order it issues them:
\* reversed(sub_boards), then the board itself
delete_order(board_id, delete_sub_boards, par, bs) ==
    IF delete_sub_boards
    THEN Reverse(get_all_sub_boards(board_id, par, bs).ids) \o <<board_id>>
    ELSE <<board_id>>

\* delete_board up to its first DELETE: the sub-boards are collected
delete_board_begin(board_id, delete_sub_boards) ==
    LET failed == delete_sub_boards /\ get_all_sub_boards(board_id, parent, boards).err
    IN  /\ last' = IF failed
                   THEN [NoCall EXCEPT !.op = "delete", !.b = board_id,
                                       !.flag = delete_sub_boards,
                                       !.result = "RecursionError"]
                   ELSE [NoCall EXCEPT !.op = "deleting", !.b = board_id,
                                       !.flag = delete_sub_boards,
                                       !.todo = delete_order(board_id, delete_sub_boards,
                                                             parent, boards)]
        /\ UNCHANGED <<boards, parent, board_images, next_id, smart_rules, images>>

\* DELETE FROM boards WHERE id = ?, for the next id of the order
delete_board_step ==
    LET sub_board_id == Head(last.todo)
    IN  /\ boards' = boards \ {sub_board_id}
        /\ parent' = [b \in boards \ {sub_board_id} |-> parent[b]]
        /\ smart_rules' = [b \in DOMAIN smart_rules \ {sub_board_id} |-> smart_rules[b]]
        /\ last' = [last EXCEPT !.todo = Tail(@), !.gone = @ \cup {sub_board_id}]
        /\ UNCHANGED <<board_images, next_id, images>>

\* conn.commit() after the last DELETE
delete_board_commit ==
    /\ last' = [last EXCEPT !.op = "delete"]
    /\ UNCHANGED <<boards, parent, board_images, next_id, smart_rules, images>>

\* ------------------------------------------------ merge_boards
RECURSIVE merge_images(_, _, _, _)
\* the for loop over the source's rows: insert into the target, count the
\* inserts that went through, skip the IntegrityErrors
merge_images(bi, image_rows, target_board_id, moved_count) ==
    IF image_rows = <<>> THEN [bi |-> bi, moved_count |-> moved_count]
    ELSE LET ins == insert_board_image(bi, target_board_id, Head(image_rows))
         IN  merge_images(ins.bi, Tail(image_rows), target_board_id,
                          IF ins.ok THEN moved_count + 1 ELSE moved_count)

\* SELECT image_id FROM board_images WHERE board_id = ?: one entry per row
RECURSIVE rows_of(_, _, _)
rows_of(bi, board_id, image_rows) ==
    IF image_rows = <<>> THEN <<>>
    ELSE (IF Rows(bi, board_id, Head(image_rows)) > 0
          THEN [k \in 1..Rows(bi, board_id, Head(image_rows)) |-> Head(image_rows)]
          ELSE <<>>) \o rows_of(bi, board_id, Tail(image_rows))

source_images(bi, board_id) ==
    rows_of(bi, board_id, SortedSeq({k[2] : k \in {x \in DOMAIN bi : x[1] = board_id}}))

\* UPDATE boards SET parent_id = target WHERE parent_id = source, not done
reparent_sub_boards_not_done(par, bs, source_board_id, target_board_id) == par

\* UPDATE boards SET parent_id = target WHERE parent_id = source
reparent_sub_boards(par, bs, source_board_id, target_board_id) ==
    [b \in bs |-> IF par[b] = source_board_id THEN target_board_id ELSE par[b]]

\* board_images after a merge that takes the rows away from the source
merged_rows_moving(bi, source_board_id, target_board_id) ==
    LET copied == merge_images(bi, source_images(bi, source_board_id),
                               target_board_id, 0).bi
    IN  [k \in {x \in DOMAIN copied : x[1] /= source_board_id} |-> copied[k]]

\* board_images after the loop "Move images to target board": one INSERT per
\* row of the source, and no DELETE
merged_rows(bi, source_board_id, target_board_id) ==
    merge_images(bi, source_images(bi, source_board_id), target_board_id, 0).bi

\* return sub_boards_moved
merge_returned_sub_boards(moved_count, sub_boards_moved) == <<sub_boards_moved>>

\* return moved_count: the values the caller receives; sub_boards_moved is
\* only printed
merge_returned(moved_count, sub_boards_moved) == <<moved_count>>

merge_boards(source_board_id, target_board_id, delete_source) ==
    LET merged == merge_images(board_images,
                               source_images(board_images, source_board_id),
                               target_board_id, 0)
        moved == reparent_sub_boards(parent, boards, source_board_id, target_board_id)
        gone == IF delete_source THEN {source_board_id} ELSE {}
        sub_boards_moved == Cardinality({b \in boards : parent[b] = source_board_id})
    IN  /\ board_images' = merged_rows(board_images, source_board_id, target_board_id)
        /\ boards' = boards \ gone
        /\ parent' = [b \in boards \ gone |-> moved[b]]
        /\ last' = [NoCall EXCEPT !.op = "merge", !.b = source_board_id,
                        !.p = target_board_id, !.flag = delete_source,
                        !.ret = merged.moved_count,
                        !.subs = sub_boards_moved,
                        !.returned = merge_returned(merged.moved_count,
                                                    sub_boards_moved)]
        /\ smart_rules' = [b \in DOMAIN smart_rules \ gone |-> smart_rules[b]]
        /\ UNCHANGED <<next_id, images>>

\* route POST /api/boards/<id>/merge
merge_board(board_id, target_board_id, delete_source) ==
    IF target_board_id = NULL \/ board_id = target_board_id
    THEN /\ last' = [NoCall EXCEPT !.op = "merge", !.b = board_id,
                         !.p = target_board_id, !.flag = delete_source,
                         !.result = "400"]
         /\ UNCHANGED <<boards, parent, board_images, next_id, smart_rules, images>>
    ELSE merge_boards(board_id, target_board_id, delete_source)

\* ------------------------------------------------ membership calls
\* how add_image_to_board ends: each INSERT sits in its own
\* try/except sqlite3.IntegrityError, so the duplicate is never raised
add_image_result(bi, par, bs, board_id, image_id, auto_add_to_parents) == "ok"

add_image_to_board(board_id, image_id, auto_add_to_parents) ==
    /\ board_images' = add_image_rows(board_images, parent, boards, board_id,
                                      image_id, auto_add_to_parents)
    /\ last' = [NoCall EXCEPT !.op = "add", !.b = board_id, !.item = image_id,
                    !.flag = auto_add_to_parents,
                    !.result = add_image_result(board_images, parent, boards,
                                   board_id, image_id, auto_add_to_parents)]
    /\ UNCHANGED <<boards, parent, next_id, smart_rules, images>>

\* remove_image_from_board that also removes the image from the parents
remove_image_rows_cascading(bi, par, bs, board_id, image_id) ==
    [k \in {x \in DOMAIN bi :
              ~(x[2] = image_id
                /\ x[1] \in {board_id} \cup Range(get_parent_boards(board_id, par, bs)))}
        |-> bi[k]]

\* board_images after remove_image_from_board(board_id, image_id)
remove_image_rows(bi, par, bs, board_id, image_id) ==
    delete_board_image(bi, board_id, image_id)

remove_image_from_board(board_id, image_id) ==
    /\ board_images' = remove_image_rows(board_images, parent, boards, board_id, image_id)
    /\ last' = [NoCall EXCEPT !.op = "remove", !.b = board_id, !.item = image_id,
                              !.ret = Rows(board_images, board_id, image_id)]
    /\ UNCHANGED <<boards, parent, next_id, smart_rules, images>>

\* ------------------------------------------------ smart rules
\* a string is a sequence of characters; a tag list is a set of strings
\* (process_smart_boards turns every list into a set before it uses it)

\* str.lower() on the characters in use
lower_char(c) ==
    CASE c = "W" -> "w"
      [] c = "N" -> "n"
      [] c = "S" -> "s"
      [] c = "E" -> "e"
      [] OTHER -> c

lower(str) == [k \in 1..Len(str) |-> lower_char(str[k])]

RECURSIVE lstrip(_)
lstrip(str) == IF str /= <<>> /\ Head(str) = " " THEN lstrip(Tail(str)) ELSE str

RECURSIVE rstrip(_)
rstrip(str) ==
    IF str /= <<>> /\ str[Len(str)] = " "
    THEN rstrip(SubSeq(str, 1, Len(str) - 1))
    ELSE str

\* str.strip()
strip(str) == rstrip(lstrip(str))

\* set(t.lower().strip() for t in tag_list if t)
tag_set(tag_list) == {strip(lower(t)) : t \in {u \in tag_list : u /= <<>>}}

\* needle in haystack
contains(haystack, needle) ==
    \E k \in 0..(Len(haystack) - Len(needle)) :
        SubSeq(haystack, k + 1, k + Len(needle)) = needle

\* the rule evaluation where an excluded tag only resets the flag and the
\* later rules still run
rules_match_exclude_falls_through(rules, image_tags_set, image_description) ==
    LET m1 == /\ rules.tags_include /= {}
              /\ tag_set(rules.tags_include) \cap image_tags_set /= {}
        excluded == /\ rules.tags_exclude /= {}
                    /\ tag_set(rules.tags_exclude) \cap image_tags_set /= {}
        m2 == IF excluded THEN FALSE ELSE m1
        m3 == IF /\ rules.description_contains /= <<>>
                 /\ contains(image_description, lower(rules.description_contains))
              THEN TRUE ELSE m2
        required_all == tag_set(rules.tags_all)
    IN  IF rules.tags_all /= {} /\ required_all /= {}
        THEN required_all \subseteq image_tags_set
        ELSE m3

\* the rule evaluation without the elif of RULE 4: tags_all can only add a match
rules_match_all_optional(rules, image_tags_set, image_description) ==
    LET m1 == /\ rules.tags_include /= {}
              /\ tag_set(rules.tags_include) \cap image_tags_set /= {}
        excluded == /\ rules.tags_exclude /= {}
                    /\ tag_set(rules.tags_exclude) \cap image_tags_set /= {}
        m3 == IF /\ rules.description_contains /= <<>>
                 /\ contains(image_description, lower(rules.description_contains))
              THEN TRUE ELSE m1
        required_all == tag_set(rules.tags_all)
    IN  IF excluded THEN FALSE
        ELSE IF rules.tags_all /= {} /\ required_all /= {}
                /\ required_all \subseteq image_tags_set
        THEN TRUE
        ELSE m3

\* the rule evaluation where RULE 3 searches for description_contains as it
\* is stored, without .lower()
rules_match_case_sensitive(rules, image_tags_set, image_description) ==
    LET m1 == /\ rules.tags_include /= {}
              /\ tag_set(rules.tags_include) \cap image_tags_set /= {}
        excluded == /\ rules.tags_exclude /= {}
                    /\ tag_set(rules.tags_exclude) \cap image_tags_set /= {}
        m3 == IF /\ rules.description_contains /= <<>>
                 /\ contains(image_description, rules.description_contains)
              THEN TRUE ELSE m1
        required_all == tag_set(rules.tags_all)
    IN  IF excluded THEN FALSE
        ELSE IF rules.tags_all /= {} /\ required_all /= {}
        THEN required_all \subseteq image_tags_set
        ELSE m3

\* the body of the for loop of process_smart_boards, RULE 1 to RULE 4: the
\* value of match when the loop reaches "if match"
rules_match(rules, image_tags_set, image_description) ==
    LET \* RULE 1
        m1 == /\ rules.tags_include /= {}
              /\ tag_set(rules.tags_include) \cap image_tags_set /= {}
        \* RULE 2: continue
        excluded == /\ rules.tags_exclude /= {}
                    /\ tag_set(rules.tags_exclude) \cap image_tags_set /= {}
        \* RULE 3
        m3 == IF /\ rules.description_contains /= <<>>
                 /\ contains(image_description, lower(rules.description_contains))
              THEN TRUE ELSE m1
        \* RULE 4
        required_all == tag_set(rules.tags_all)
    IN  IF excluded THEN FALSE
        ELSE IF rules.tags_all /= {} /\ required_all /= {}
        THEN required_all \subseteq image_tags_set
        ELSE m3

\* a JSON number stored as the value of description_contains: json.dumps
\* stores whatever dictionary update_board_smart_rules is given
NotAString == <<"int">>

\* the body of the for loop raises: RULE 3 calls .lower() on a number
\* (AttributeError) unless RULE 2 has left the body with continue
rules_raise(rules, image_tags_set) ==
    LET excluded == /\ rules.tags_exclude /= {}
                    /\ tag_set(rules.tags_exclude) \cap image_tags_set /= {}
    IN  rules.description_contains = NotAString /\ ~excluded

\* the rows of the cursor are sqlite3.Row objects (conn.row_factory), which
\* have no method get
RowHasGet == FALSE

\* the except clause of the loop body evaluates board.get('name', 'unknown')
\* for its message: it ends with continue when that call works and raises
\* AttributeError out of the loop when it does not
handler_continues == RowHasGet

RECURSIVE scan_image(_, _, _, _, _, _, _, _)
\* the for loop over smart_boards: add the image to every board whose rules
\* match, parents included, and collect the ids; image is the row of table
\* images that get_image returned; raised: an exception left the loop, the
\* rows added before it are committed
scan_image(smart_boards, bi, added_to_boards, rls, par, bs, image_id, image) ==
    IF smart_boards = <<>>
    THEN [bi |-> bi, added_to_boards |-> added_to_boards, raised |-> FALSE]
    ELSE LET board_id == Head(smart_boards)
             match == rules_match(rls[board_id], tag_set(image.tags),
                                  lower(image.description))
         IN  IF rules_raise(rls[board_id], tag_set(image.tags))
             THEN IF handler_continues
                  THEN scan_image(Tail(smart_boards), bi, added_to_boards,
                                  rls, par, bs, image_id, image)
                  ELSE [bi |-> bi, added_to_boards |-> added_to_boards,
                        raised |-> TRUE]
             ELSE IF match
             THEN scan_image(Tail(smart_boards),
                             add_image_rows(bi, par, bs, board_id, image_id, TRUE),
                             Append(added_to_boards, board_id), rls, par, bs,
                             image_id, image)
             ELSE scan_image(Tail(smart_boards), bi, added_to_boards,
                             rls, par, bs, image_id, image)

\* get_image(image_id), then the loop
scan_boards(smart_boards, bi, added_to_boards, rls, par, bs, image_id) ==
    scan_image(smart_boards, bi, added_to_boards, rls, par, bs, image_id,
               images[image_id])

\* what the caller of process_smart_boards holds afterwards: the list that
\* was returned, or nothing when the call raised
scan_returned(scan) == IF scan.raised THEN <<>> ELSE scan.added_to_boards

\* scan is the one run of the loop
process_smart_boards(image_id) ==
    \E scan \in {scan_boards(SortedSeq(DOMAIN smart_rules), board_images, <<>>,
                             smart_rules, parent, boards, image_id)} :
        /\ board_images' = scan.bi
        /\ last' = [NoCall EXCEPT !.op = "scan", !.item = image_id,
                        !.matched = scan_returned(scan),
                        !.scan_raised = scan.raised,
                        !.result = IF scan.raised THEN "AttributeError" ELSE "ok"]
        /\ UNCHANGED <<boards, parent, next_id, smart_rules, images>>

\* UPDATE boards SET smart_rules = ? WHERE id = ?
update_board_smart_rules(board_id, rules) ==
    /\ smart_rules' = IF board_id \in boards
                      THEN [b \in DOMAIN smart_rules \cup {board_id} |->
                               IF b = board_id THEN rules ELSE smart_rules[b]]
                      ELSE smart_rules
    /\ last' = [NoCall EXCEPT !.op = "rules", !.b = board_id, !.ret = 1]
    /\ UNCHANGED <<boards, parent, board_images, next_id, images>>

\* ------------------------------------------------ categorization
\* An optional value (None or a value) is a sequence of length 0 or 1.

\* ai.suggest_boards: what the caller gets for a reply of the LM endpoint.
\* A refused connection is re-raised as AIServiceError; a timeout, a status
\* other than 200 and a text without a JSON dictionary give None; a parsed
\* dictionary is returned with the defaults of its .get calls
suggest_boards(reply) ==
    IF reply.kind = "ConnectionError" THEN [raised |-> TRUE, suggestion |-> <<>>]
    ELSE IF reply.kind = "parsed"
    THEN [raised |-> FALSE,
          suggestion |->
              <<[action |-> IF reply.parsed.action = <<>> THEN "create_new"
                            ELSE reply.parsed.action[1],
                 board_id |-> reply.parsed.board_id,
                 suggested_boards |-> reply.parsed.suggested_boards,
                 new_board |-> reply.parsed.new_board]>>]
    ELSE [raised |-> FALSE, suggestion |-> <<>>]

\* "if not added_to_boards" read as always true
needs_suggestion_always(added_to_boards) == TRUE

\* if not added_to_boards: the collaborator is asked
needs_suggestion(added_to_boards) == added_to_boards = <<>>

\* db.create_board(name, description, parent_id) on the tables in tbl
insert_board(tbl, name, parent_id) ==
    [tbl EXCEPT !.boards = @ \cup {tbl.next_id},
                !.parent = @ @@ (tbl.next_id :> parent_id),
                !.next_id = @ + 1,
                !.created = Append(@, [id |-> tbl.next_id, name |-> name,
                                       parent_id |-> parent_id])]

RECURSIVE add_each(_, _, _, _, _)
\* for b_id in suggestion['suggested_boards']: db.add_image_to_board(b_id, image_id)
add_each(bi, par, bs, board_ids, image_id) ==
    IF board_ids = <<>> THEN bi
    ELSE add_each(add_image_rows(bi, par, bs, Head(board_ids), image_id, TRUE),
                  par, bs, Tail(board_ids), image_id)

\* analyze_image, "if suggestion:": create the suggested board and add the
\* image to it, or add the image to the suggested boards; a new_board without
\* a name raises KeyError before anything is written
apply_suggestion(suggestion, tbl, image_id) ==
    IF suggestion = <<>> THEN tbl
    ELSE LET s == suggestion[1]
         IN  IF s.action = "create_new" /\ s.new_board /= <<>>
             THEN IF s.new_board[1].name = <<>> THEN tbl
                  ELSE LET made == insert_board(tbl, s.new_board[1].name[1],
                                                s.new_board[1].parent_id)
                       IN  [made EXCEPT !.board_images =
                               add_image_rows(@, made.parent, made.boards,
                                              tbl.next_id, image_id, TRUE)]
             ELSE IF s.action = "add_to_existing"
             THEN [tbl EXCEPT !.board_images =
                      add_each(@, tbl.parent, tbl.boards, s.suggested_boards, image_id)]
             ELSE tbl

\* batch_analyze, the same decision: create_new is passed over
apply_suggestion_batch(suggestion, tbl, image_id) ==
    IF suggestion = <<>> THEN tbl
    ELSE LET s == suggestion[1]
         IN  IF s.action = "create_new" /\ s.new_board /= <<>> THEN tbl
             ELSE IF s.action = "add_to_existing"
             THEN [tbl EXCEPT !.board_images =
                      add_each(@, tbl.parent, tbl.boards, s.suggested_boards, image_id)]
             ELSE tbl

\* how the request ends when the exception of suggest_boards is not caught
analyze_result_uncaught(answer) == IF answer.raised THEN "500" ELSE "ok"

\* how the request ends: the try around the suggestion absorbs whatever
\* suggest_boards and the calls that apply its decision raise
analyze_result(answer) == "ok"

\* the categorization of one analyzed image: update_image_analysis, the rule
\* scan, and the suggestion when the scan added the image to no board
categorize(image_id, result, reply, batch) ==
    LET image == [tags |-> result[1].tags, description |-> result[1].description,
                  analyzed |-> TRUE]
        scan == scan_image(SortedSeq(DOMAIN smart_rules), board_images, <<>>,
                           smart_rules, parent, boards, image_id, image)
        \* analyze_image: added_to_boards stays [] when the scan raises;
        \* batch_analyze: the scan and the suggestion share one try, and
        \* "except: pass" leaves it when the scan raises
        added_to_boards == scan_returned(scan)
        asked == IF batch /\ scan.raised THEN FALSE
                 ELSE needs_suggestion(added_to_boards)
        answer == IF asked THEN suggest_boards(reply)
                  ELSE [raised |-> FALSE, suggestion |-> <<>>]
        tbl == [boards |-> boards, parent |-> parent, board_images |-> scan.bi,
                next_id |-> next_id, created |-> <<>>]
        done == IF batch THEN apply_suggestion_batch(answer.suggestion, tbl, image_id)
                ELSE apply_suggestion(answer.suggestion, tbl, image_id)
    IN  /\ images' = [images EXCEPT ![image_id] = image]
        /\ boards' = done.boards
        /\ parent' = done.parent
        /\ board_images' = done.board_images
        /\ next_id' = done.next_id
        /\ last' = [NoCall EXCEPT !.op = IF batch THEN "batch" ELSE "analyze",
                        !.item = image_id, !.flag = TRUE,
                        !.matched = added_to_boards,
                        !.scan_raised = scan.raised,
                        !.asked = asked,
                        \* table board_images when ai.suggest_boards is called
                        !.at_call = IF asked THEN scan.bi ELSE <<>>,
                        !.reply = IF asked THEN reply.kind ELSE "",
                        !.suggestion = answer.suggestion,
                        !.created = done.created,
                        !.result = analyze_result(answer)]
        /\ UNCHANGED smart_rules

\* route POST /api/images/<id>/analyze: without a result of the analysis the
\* request ends with status 500 and nothing is written
analyze_image(image_id, result, reply) ==
    IF result = <<>>
    THEN /\ last' = [NoCall EXCEPT !.op = "analyze", !.item = image_id,
                                   !.result = "500"]
         /\ UNCHANGED <<boards, parent, board_images, next_id, smart_rules, images>>
    ELSE categorize(image_id, result, reply, FALSE)

\* route POST /api/analyze-batch, one pass of its loop over the images that
\* have no analysis yet; an image without a result is left as it is
batch_analyze(image_id, result, reply) ==
    IF result = <<>>
    THEN /\ last' = [NoCall EXCEPT !.op = "batch", !.item = image_id]
         /\ UNCHANGED <<boards, parent, board_images, next_id, smart_rules, images>>
    ELSE categorize(image_id, result, reply, TRUE)

\* ------------------------------------------------ specification Spec
\* board ids a caller can name: every id handed out so far
Ids == 1..(next_id - 1)

Init ==
    /\ boards = {}
    /\ parent = <<>>
    /\ board_images = <<>>
    /\ next_id = 1
    /\ smart_rules = <<>>
    /\ images = [i \in Items |-> [tags |-> {}, description |-> <<>>]]
    /\ last = NoCall

\* every call starts from the idle state and leaves its outcome in last
Idle == last.op = "none"

CreateBoard ==
    /\ Idle /\ next_id <= MaxBoards
    /\ \E p \in {NULL} \cup boards : create_board(p)
MoveBoard == Idle /\ \E b \in boards, p \in {NULL} \cup Ids : move_board(b, p)
DeleteBoard == Idle /\ \E b \in boards, f \in BOOLEAN : delete_board(b, f)
MergeBoards ==
    Idle /\ \E s \in boards, t \in boards, f \in BOOLEAN : merge_board(s, t, f)
\* every caller leaves auto_add_to_parents at its default
AddItemToBoard ==
    Idle /\ \E b \in boards, i \in Items : add_image_to_board(b, i, TRUE)
RemoveItemFromBoard ==
    Idle /\ \E b \in boards, i \in Items : remove_image_from_board(b, i)
\* the caller has received the outcome
Return ==
    /\ ~Idle
    /\ last' = NoCall
    /\ UNCHANGED <<boards, parent, board_images, next_id, smart_rules, images>>

Next ==
    \/ CreateBoard
    \/ MoveBoard
    \/ DeleteBoard
    \/ MergeBoards
    \/ AddItemToBoard
    \/ RemoveItemFromBoard
    \/ Return

Spec == Init /\ [][Next]_vars

\* ------------------------------------------------ specification SpecTree
\* the four tree mutations on their own; board_images stays empty
NextTree ==
    \/ CreateBoard
    \/ MoveBoard
    \/ DeleteBoard
    \/ MergeBoards
    \/ Return

SpecTree == Init /\ [][NextTree]_vars

\* ------------------------------------------------ specification SpecMembers
\* the membership calls on the hierarchies that create, merge and delete build
NextMembers ==
    \/ CreateBoard
    \/ DeleteBoard
    \/ MergeBoards
    \/ AddItemToBoard
    \/ RemoveItemFromBoard
    \/ Return

SpecMembers == Init /\ [][NextMembers]_vars

\* ------------------------------------------------ specification SpecDeep
\* one chain of boards, each new board under the one created before it
DeepCreateBoard == Idle /\ next_id <= MaxDeep /\ create_board(next_id - 1)
DeepAddItemToBoard ==
    Idle /\ \E b \in boards, i \in Items : add_image_to_board(b, i, TRUE)

NextDeep ==
    \/ DeepCreateBoard
    \/ DeepAddItemToBoard
    \/ Return

SpecDeep == Init /\ [][NextDeep]_vars

\* ------------------------------------------------ specification SpecRules
\* tags and descriptions the analysis can have stored for the scanned image
ItemTagSets == SUBSET {<<"w">>, <<" ", "N">>}
ItemDescriptions == {<<>>, <<"S", "e", "a">>}

\* rule sets a board can carry; an absent clause and an empty one are the
\* same to process_smart_boards
RuleSets ==
    [tags_include : {{}, {<<"W">>}},
     tags_exclude : {{}, {<<"n">>}},
     tags_all : {{}, {<<"w">>, <<"n">>}},
     description_contains : {<<>>, <<"s", "E">>}]

InitRules ==
    /\ boards = {}
    /\ parent = <<>>
    /\ board_images = <<>>
    /\ next_id = 1
    /\ smart_rules = <<>>
    /\ \E t \in ItemTagSets, d \in ItemDescriptions :
          images = [i \in Items |-> IF i = 1 THEN [tags |-> t, description |-> d]
                                    ELSE [tags |-> {}, description |-> <<>>]]
    /\ last = NoCall

RulesCreateBoard ==
    /\ Idle /\ next_id <= MaxRuleBoards
    /\ \E p \in {NULL} \cup boards : create_board(p)
\* a board gets its rule set once
UpdateBoardRules ==
    /\ Idle
    /\ \E b \in boards \ DOMAIN smart_rules, r \in RuleSets :
          update_board_smart_rules(b, r)
RuleScan == Idle /\ \E i \in Items : process_smart_boards(i)

NextRules ==
    \/ RulesCreateBoard
    \/ UpdateBoardRules
    \/ RuleScan
    \/ Return

SpecRules == InitRules /\ [][NextRules]_vars

\* ------------------------------------------------ specification SpecCat
\* the categorization of analyzed images on the hierarchies create builds
\* results of the analysis collaborator: None, or tags and a description
AnalysisResults ==
    {<<>>} \cup {<<[tags |-> t, description |-> <<>>]>> : t \in {{}, {<<"w">>}}}

\* the rule sets the boards of SpecCat carry: one of the documented form,
\* and one whose description_contains is a number
CatRuleSets ==
    {[tags_include |-> {<<"W">>}, tags_exclude |-> {}, tags_all |-> {},
      description_contains |-> <<>>],
     [tags_include |-> {}, tags_exclude |-> {}, tags_all |-> {},
      description_contains |-> NotAString]}

CatNames == {"Vehicles"}

\* the images whose file is on disk: both routes pass over the others
\* (status 404, or continue in the loop of the batch)
CatItems == {1}

\* lists of board ids the collaborator can return
BoardLists(ids) == UNION {[1..n -> ids] : n \in 0..MaxSuggested}

\* new_board dictionaries the collaborator can return, with or without a name
NewBoards(ids) ==
    {<<[name |-> n, parent_id |-> p]>> :
        n \in {<<>>} \cup {<<x>> : x \in CatNames}, p \in {NULL} \cup ids}

\* dictionaries the reply text can parse to: the two shapes the prompt asks
\* for, the same without the action key, and an action the caller does not know
Decisions(ids, room) ==
    [action : {<<"add_to_existing">>}, board_id : {NULL} \cup ids,
     suggested_boards : BoardLists(ids), new_board : {<<>>}]
    \cup [action : {<<>>, <<"create_new">>}, board_id : {NULL},
          suggested_boards : {<<>>},
          new_board : {<<>>} \cup (IF room THEN NewBoards(ids) ELSE {})]
    \cup [action : {<<"skip">>}, board_id : {NULL}, suggested_boards : {<<>>},
          new_board : {<<>>}]

NoDecision == [action |-> <<>>, board_id |-> NULL, suggested_boards |-> <<>>,
               new_board |-> <<>>]

\* what the request to the LM endpoint can end in; room caps the boards a
\* run creates
Replies(ids, room) ==
    {[kind |-> k, parsed |-> NoDecision] :
        k \in {"ConnectionError", "Timeout", "status", "unparseable"}}
    \cup {[kind |-> "parsed", parsed |-> d] : d \in Decisions(ids, room)}

InitCat ==
    /\ boards = {}
    /\ parent = <<>>
    /\ board_images = <<>>
    /\ next_id = 1
    /\ smart_rules = <<>>
    /\ images = [i \in Items |-> [tags |-> {}, description |-> <<>>,
                                  analyzed |-> FALSE]]
    /\ last = NoCall

CatCreateBoard ==
    /\ Idle /\ next_id <= MaxCatBoards
    /\ \E p \in {NULL} \cup boards : create_board(p)
CatUpdateBoardRules ==
    /\ Idle
    /\ \E b \in boards \ DOMAIN smart_rules, r \in CatRuleSets :
          update_board_smart_rules(b, r)
AnalyzeImage ==
    /\ Idle
    /\ \E i \in CatItems, result \in AnalysisResults,
          reply \in Replies(boards, next_id <= MaxCatBoards) :
          analyze_image(i, result, reply)
\* get_unanalyzed_images: the images whose analyzed_at is NULL
BatchAnalyze ==
    /\ Idle
    /\ \E i \in {x \in CatItems : ~images[x].analyzed}, result \in AnalysisResults,
          reply \in Replies(boards, next_id <= MaxCatBoards) :
          batch_analyze(i, result, reply)

NextCat ==
    \/ CatCreateBoard
    \/ CatUpdateBoardRules
    \/ AnalyzeImage
    \/ BatchAnalyze
    \/ Return

SpecCat == InitCat /\ [][NextCat]_vars

\* ------------------------------------------------ telegram_bot.py
\* handle_board_selection after the user has chosen a board for a pending
\* video: board_id is NULL for the choice "No Board"; result is what
\* download_video returned: <<>> for None, or a dictionary with its status
\* and image_id (0 when it has none)
handle_board_selection(board_id, result) ==
    LET downloaded == result /= <<>> /\ result[1].status /= "exists"
        image_id == IF downloaded THEN result[1].image_id ELSE 0
        \* if board_id and image_id: db.add_image_to_board(image_id, board_id),
        \* the gallery id in the place of the board id and the board id in
        \* the place of the image id
        added == downloaded /\ board_id /= NULL /\ image_id /= 0
    IN  /\ board_images' = IF added
                           THEN add_image_rows(board_images, parent, boards,
                                               image_id, board_id, TRUE)
                           ELSE board_images
        /\ last' = [NoCall EXCEPT !.op = "telegram", !.b = board_id,
                        !.item = image_id, !.flag = added,
                        !.result = IF result = <<>> THEN "failed"
                                   ELSE IF downloaded THEN "complete"
                                   ELSE "exists"]
        /\ UNCHANGED <<boards, parent, next_id, smart_rules, images>>

\* ------------------------------------------------ specification SpecTelegram
\* videos sent to the bot and filed into the boards create builds
DownloadResults ==
    {<<>>} \cup {<<[status |-> st, image_id |-> v]>> :
                    st \in {"exists", "downloaded"}, v \in {0} \cup Items}

TelegramSelect ==
    /\ Idle
    /\ \E b \in {NULL} \cup boards, result \in DownloadResults :
          handle_board_selection(b, result)

NextTelegram ==
    \/ CreateBoard
    \/ TelegramSelect
    \/ Return

SpecTelegram == Init /\ [][NextTelegram]_vars

\* ------------------------------------------------ specification SpecWalk
\* get_parent_boards on one chain of boards, and on the chain after one merge
\* of a board into a board below it has closed a cycle of parent pointers
WalkMerge ==
    /\ Idle
    /\ \A b \in boards : parent[b] = b - 1
    /\ \E s \in boards, t \in boards : s < t /\ merge_board(s, t, FALSE)
GetParentBoards == Idle /\ \E b \in boards : parent_boards_call(b)

NextWalk ==
    \/ DeepCreateBoard
    \/ WalkMerge
    \/ GetParentBoards
    \/ Return

SpecWalk == Init /\ [][NextWalk]_vars

\* ------------------------------------------------ specification SpecScan
\* the rule scan over boards that carry the rule sets of SpecCat
ScanUpdateBoardRules ==
    /\ Idle
    /\ \E b \in boards \ DOMAIN smart_rules, r \in CatRuleSets :
          update_board_smart_rules(b, r)

NextScan ==
    \/ RulesCreateBoard
    \/ ScanUpdateBoardRules
    \/ RuleScan
    \/ Return

SpecScan == InitRules /\ [][NextScan]_vars

\* ------------------------------------------------ specification SpecDelete
\* delete_board one statement at a time, on the trees create and move build
DeleteBegin == Idle /\ \E b \in boards, f \in BOOLEAN : delete_board_begin(b, f)
DeleteStep == last.op = "deleting" /\ last.todo /= <<>> /\ delete_board_step
DeleteCommit == last.op = "deleting" /\ last.todo = <<>> /\ delete_board_commit
\* a call returns when it has finished
DeleteReturn == last.op /= "deleting" /\ Return

NextDelete ==
    \/ CreateBoard
    \/ MoveBoard
    \/ DeleteBegin
    \/ DeleteStep
    \/ DeleteCommit
    \/ DeleteReturn

SpecDelete == Init /\ [][NextDelete]_vars

\* ------------------------------------------------ specification SpecMissing
\* calls that name any id handed out so far, the ids of deleted boards included
MissingAdd == Idle /\ \E b \in Ids, i \in Items : add_image_to_board(b, i, TRUE)
MissingMove == Idle /\ \E b \in Ids, p \in {NULL} \cup Ids : move_board(b, p)
MissingMerge ==
    Idle /\ \E s \in Ids, t \in Ids, f \in BOOLEAN : merge_board(s, t, f)

NextMissing ==
    \/ CreateBoard
    \/ DeleteBoard
    \/ MissingAdd
    \/ MissingMove
    \/ MissingMerge
    \/ Return

SpecMissing == Init /\ [][NextMissing]_vars

\* ================================================================ claims
\* boards reached from b by following parent_id, nearest first, as a set
RECURSIVE AncestorsUpTo(_, _, _, _)
AncestorsUpTo(b, par, bs, n) ==
    IF n = 0 \/ b \notin bs THEN {}
    ELSE IF par[b] = NULL THEN {}
    ELSE {par[b]} \cup AncestorsUpTo(par[b], par, bs, n - 1)

Ancestors(b, par, bs) == AncestorsUpTo(b, par, bs, Cardinality(bs) + 1) \cap bs

Descendants(b, par, bs) == {d \in bs : b \in Ancestors(d, par, bs)}

\* the parent chain of b is finite and acyclic
ChainAcyclic(b, par, bs) ==
    \A a \in {b} \cup Ancestors(b, par, bs) : a \notin Ancestors(a, par, bs)

\* no pair has more than one row
NoDuplicateRows(bi) == \A k \in DOMAIN bi : bi[k] = 1

\* C1: after add_image_to_board(B, item) with cascade on a board B whose
\* parent chain is finite and acyclic, (B, item) and (A, item) for every
\* ancestor A of B have a row, whatever the length of the chain.
C1_CascadeAnyLength ==
    (/\ last.op = "add" /\ last.flag /\ last.b \in boards
     /\ ChainAcyclic(last.b, parent, boards))
    => \A a \in {last.b} \cup Ancestors(last.b, parent, boards) :
          Rows(board_images, a, last.item) >= 1

\* C2: the parent relation is a forest in every reachable state: no board
\* is its own parent or ancestor.
C2_Forest == \A b \in boards : b \notin Ancestors(b, parent, boards)

\* C3: move_board(B, D) for a descendant D of B (a board other than B; C10
\* is about D = B) fails with the cycle error and leaves every parent
\* pointer unchanged.
C3_MoveUnderDescendantFails ==
    [][(/\ last'.op = "move" /\ last'.b \in boards /\ last'.p /= last'.b
        /\ last'.p \in Descendants(last'.b, parent, boards))
       => (last'.result = "CycleError" /\ parent' = parent /\ boards' = boards)]_vars

\* C4: after merge_boards(S, T, delete_source=true) of two distinct existing
\* boards, T holds the items of T and of S with one row each, every board
\* whose parent was S has parent T, and S is gone from the boards table.
C4_MergeCorrect ==
    [][(/\ last'.op = "merge" /\ last'.result = "ok" /\ last'.flag
        /\ last'.b \in boards /\ last'.p \in boards /\ last'.b /= last'.p)
       => (/\ ItemsOf(board_images', last'.p)
                = ItemsOf(board_images, last'.p) \cup ItemsOf(board_images, last'.b)
           /\ \A i \in ItemsOf(board_images', last'.p) :
                 Rows(board_images', last'.p, i) = 1
           /\ \A c \in boards \ {last'.b} :
                 parent[c] = last'.b => (c \in boards' /\ parent'[c] = last'.p)
           /\ last'.b \notin boards')]_vars

C4_Witness ==
    /\ last.op = "merge" /\ last.result = "ok" /\ last.flag
    /\ last.ret >= 1 /\ last.subs >= 1
    /\ last.p \in boards /\ last.b \notin boards
    /\ \E c \in boards \ {last.p} : parent[c] = last.p

C6_RemoveOnlyThePair ==
    [][last'.op = "remove"
       => (/\ \A k \in DOMAIN board_images \cup DOMAIN board_images' :
                 Rows(board_images', k[1], k[2])
                    = IF k = <<last'.b, last'.item>> THEN 0
                      ELSE Rows(board_images, k[1], k[2])
           /\ boards' = boards /\ parent' = parent)]_vars

C6_Witness ==
    /\ last.op = "remove" /\ last.ret = 1 /\ last.b \in boards
    /\ parent[last.b] \in boards
    /\ Rows(board_images, last.b, last.item) = 0
    /\ Rows(board_images, parent[last.b], last.item) = 1

\* the two tag lists share a tag, compared case-insensitively after trimming
SharesTag(item_tags, rule_tags) ==
    \E t \in item_tags, u \in rule_tags :
        t /= <<>> /\ u /= <<>> /\ strip(lower(t)) = strip(lower(u))

\* every tag of rule_tags is among the item's tags
HasAllTags(item_tags, rule_tags) ==
    \A u \in {x \in rule_tags : x /= <<>>} : SharesTag(item_tags, {u})

\* C7 as stated: a board whose tags_exclude shares a tag with the item is not
\* matched by the scan, and the scan does not add the item to it.
C7_ExcludedNeverAdded ==
    [][last'.op = "scan"
       => \A b \in DOMAIN smart_rules :
             SharesTag(images[last'.item].tags, smart_rules[b].tags_exclude)
             => (/\ b \notin Range(last'.matched)
                 /\ Rows(board_images', b, last'.item)
                       = Rows(board_images, b, last'.item))]_vars

\* C7 amended: a board whose tags_exclude shares a tag with the item is not
\* among the boards the scan reports, whatever its other clauses say; the
\* scan adds the item to it only as a parent of a board that did match.
C7_ExcludedNeverMatches ==
    [][last'.op = "scan"
       => \A b \in DOMAIN smart_rules :
             SharesTag(images[last'.item].tags, smart_rules[b].tags_exclude)
             => (/\ b \notin Range(last'.matched)
                 /\ Rows(board_images', b, last'.item)
                       /= Rows(board_images, b, last'.item)
                    => \E m \in Range(last'.matched) :
                          b \in Range(get_parent_boards(m, parent, boards)))]_vars

C7_Witness ==
    /\ last.op = "scan"
    /\ \E b \in DOMAIN smart_rules :
          /\ SharesTag(images[last.item].tags, smart_rules[b].tags_exclude)
          /\ SharesTag(images[last.item].tags, smart_rules[b].tags_include)
          /\ b \notin Range(last.matched)
          /\ \E m \in Range(last.matched) : parent[m] = b
          /\ Rows(board_images, b, last.item) = 1

\* C8: a board whose tags_all is present and not contained in the item's tags
\* is not matched, even when tags_include shares a tag with the item or
\* description_contains occurs in the description.
C8_TagsAllMandatory ==
    last.op = "scan"
    => \A b \in DOMAIN smart_rules :
          (/\ \E u \in smart_rules[b].tags_all : u /= <<>>
           /\ ~HasAllTags(images[last.item].tags, smart_rules[b].tags_all))
          => b \notin Range(last.matched)

C8_Witness ==
    /\ last.op = "scan"
    /\ \E b \in DOMAIN smart_rules :
          /\ \E u \in smart_rules[b].tags_all : u /= <<>>
          /\ ~HasAllTags(images[last.item].tags, smart_rules[b].tags_all)
          /\ SharesTag(images[last.item].tags, smart_rules[b].tags_include)
          /\ smart_rules[b].description_contains /= <<>>
          /\ contains(lower(images[last.item].description),
                      lower(smart_rules[b].description_contains))
          /\ b \notin Range(last.matched)

\* C9: move_board(B, P) with P null or an existing board that is neither B
\* nor a descendant of B succeeds, sets B's parent to P and leaves every
\* other parent pointer and every membership row unchanged.
C9_MoveSucceeds ==
    [][(/\ last'.op = "move" /\ last'.b \in boards
        /\ \/ last'.p = NULL
           \/ /\ last'.p \in boards /\ last'.p /= last'.b
              /\ last'.p \notin Descendants(last'.b, parent, boards))
       => (/\ last'.result = "ok"
           /\ boards' = boards
           /\ parent' = [parent EXCEPT ![last'.b] = last'.p]
           /\ board_images' = board_images)]_vars

\* C10: move_board(B, B) fails with the self-parent error for every board B
\* and leaves the boards table unchanged.
C10_MoveUnderItselfFails ==
    [][(last'.op = "move" /\ last'.b \in boards /\ last'.p = last'.b)
       => (/\ last'.result = "SelfParentError"
           /\ boards' = boards /\ parent' = parent)]_vars

C10_Witness ==
    /\ last.op = "move" /\ last.b \in boards /\ last.p = last.b
    /\ last.result = "SelfParentError"
    /\ \E c \in boards : parent[c] = last.b

\* C11: merge_boards(S, T) for a descendant T of S (a child or deeper) fails
\* with the cycle error and leaves boards, parent pointers and membership
\* rows unchanged; T never ends up under itself.
C11_MergeIntoDescendantFails ==
    [][(/\ last'.op = "merge" /\ last'.b \in boards /\ last'.p /= last'.b
        /\ last'.p \in Descendants(last'.b, parent, boards))
       => (/\ last'.result = "CycleError"
           /\ boards' = boards /\ parent' = parent
           /\ board_images' = board_images)]_vars

\* rule-bearing boards whose rule set the image satisfies
MatchingBoards(rls, image) ==
    {b \in DOMAIN rls :
        /\ ~rules_raise(rls[b], tag_set(image.tags))
        /\ rules_match(rls[b], tag_set(image.tags), lower(image.description))}

\* last is a categorization: an analysis request whose analysis gave a result
Categorized(l) == l.op \in {"analyze", "batch"} /\ l.flag

\* C12: in every categorization the suggestion collaborator is asked exactly
\* when no rule-bearing board matches the item; when a board matches, the
\* item is added to every matching board, the matching boards are what the
\* scan reports, the collaborator is not asked and no board is created.
C12_SuggestionIffNoMatch ==
    [][Categorized(last')
       => LET hit == MatchingBoards(smart_rules, images'[last'.item])
          IN  /\ last'.asked <=> hit = {}
              /\ hit /= {}
                 => /\ Range(last'.matched) = hit
                    /\ \A b \in hit : Rows(board_images', b, last'.item) >= 1
                    /\ last'.suggestion = <<>> /\ last'.created = <<>>
                    /\ boards' = boards /\ parent' = parent
                    /\ last'.result = "ok"]_vars

C12_Witness ==
    /\ Categorized(last) /\ last.op = "analyze"
    /\ last.matched /= <<>> /\ ~last.asked
    /\ \E b \in Range(last.matched) :
          /\ parent[b] \in boards
          /\ Rows(board_images, b, last.item) = 1
          /\ Rows(board_images, parent[b], last.item) = 1

\* last is a categorization in which no rule-bearing board matched and the
\* collaborator returned a decision
Decided(l, rls, image) ==
    /\ Categorized(l) /\ MatchingBoards(rls, image) = {}
    /\ l.suggestion /= <<>>

\* C13: when no board matches and the collaborator returns create_new with a
\* new_board, in the single-item route and in the batch alike, exactly one
\* board is created, with the given name and parent_id, and the item gets a
\* row in it and in each of its ancestors.
C13_CreateNew ==
    [][(/\ Decided(last', smart_rules, images'[last'.item])
        /\ last'.suggestion[1].action = "create_new"
        /\ last'.suggestion[1].new_board /= <<>>
        /\ last'.suggestion[1].new_board[1].name /= <<>>)
       => \E n \in boards' \ boards :
             /\ boards' = boards \cup {n}
             /\ parent' = parent @@ (n :> last'.suggestion[1].new_board[1].parent_id)
             /\ last'.created
                   = <<[id |-> n,
                        name |-> last'.suggestion[1].new_board[1].name[1],
                        parent_id |-> last'.suggestion[1].new_board[1].parent_id]>>
             /\ \A a \in {n} \cup Ancestors(n, parent', boards') :
                   Rows(board_images', a, last'.item) >= 1]_vars

\* boards an add_to_existing decision names: its board_id and its board list
NamedBoards(s) == ({s.board_id} \ {NULL}) \cup Range(s.suggested_boards)

\* C14: when no board matches and the collaborator returns add_to_existing,
\* the item gets a row in every board the decision names (board_id and the
\* ids of the board list) and in each of their ancestors, and no board is
\* created.
C14_AddToExisting ==
    [][(/\ Decided(last', smart_rules, images'[last'.item])
        /\ last'.suggestion[1].action = "add_to_existing")
       => (/\ \A b \in NamedBoards(last'.suggestion[1]) :
                 \A a \in {b} \cup Ancestors(b, parent, boards) :
                    Rows(board_images', a, last'.item) >= 1
           /\ boards' = boards /\ parent' = parent
           /\ last'.created = <<>>)]_vars

\* the decision is one the categorization can act on
Actionable(s) ==
    \/ /\ s.action = "create_new" /\ s.new_board /= <<>>
       /\ s.new_board[1].name /= <<>>
    \/ s.action = "add_to_existing" /\ NamedBoards(s) /= {}

\* C15: when the collaborator is asked and fails (refused connection,
\* timeout, status other than 200, text that does not parse) or returns no
\* actionable decision, no membership row is added, no board is created and
\* the analysis request still ends successfully.
C15_UnfiledOnFailure ==
    [][(/\ Categorized(last') /\ last'.asked
        /\ \/ last'.suggestion = <<>>
           \/ ~Actionable(last'.suggestion[1]))
       => (/\ board_images' = board_images
           /\ boards' = boards /\ parent' = parent /\ next_id' = next_id
           /\ last'.created = <<>>
           /\ last'.result = "ok")]_vars

C15_Witness ==
    /\ Categorized(last) /\ last.op = "analyze" /\ last.asked
    /\ last.reply = "ConnectionError" /\ last.suggestion = <<>>
    /\ last.result = "ok"
    /\ boards /= {} /\ ItemsOf(board_images, Min(boards)) = {}

\* C16: delete_board(B, delete_sub_boards=true) on an acyclic subtree issues
\* one DELETE for B and for every descendant of B, B last; every board is
\* deleted when none of its descendants is left, so after no DELETE does a
\* remaining board have a parent this call has already deleted; the call
\* ends when all of them are deleted.
C16_DeleteBottomUp ==
    [][/\ (/\ last'.op = "deleting" /\ last.op = "none" /\ last'.flag
           /\ \A d \in {last'.b} \cup Descendants(last'.b, parent, boards) :
                 ChainAcyclic(d, parent, boards))
          => (/\ Range(last'.todo) = {last'.b} \cup Descendants(last'.b, parent, boards)
              /\ Len(last'.todo) = Cardinality(Range(last'.todo))
              /\ last'.todo[Len(last'.todo)] = last'.b)
       /\ (last.op = "deleting" /\ last'.op = "deleting" /\ last.flag)
          => (/\ Descendants(Head(last.todo), parent, boards) = {}
              /\ boards' = boards \ {Head(last.todo)}
              /\ \A r \in boards' : parent'[r] \notin last'.gone)
       /\ (last.op = "deleting" /\ last'.op = "delete" /\ last.flag)
          => (last.todo = <<>> /\ last.b \in last.gone /\ boards' = boards)]_vars

C16_Witness ==
    /\ last.op = "deleting" /\ last.flag
    /\ last.todo = <<last.b>> /\ Cardinality(last.gone) = 2
    /\ last.b \in boards /\ last.gone \cap boards = {}

\* C17: delete_board(B, delete_sub_boards=false) on a board B with children
\* is either rejected, the boards table staying as it is, or it re-parents
\* the children: no remaining board has B as its parent_id, and a parent_id
\* that referred to an existing board before the call still does after it.
C17_DeleteKeepsParentsValid ==
    [][(/\ last'.op = "delete" /\ ~last'.flag /\ last'.b \in boards
        /\ \E c \in boards \ {last'.b} : parent[c] = last'.b)
       => \/ boards' = boards /\ parent' = parent
          \/ /\ last'.b \notin boards'
             /\ \A r \in boards' :
                   /\ parent'[r] /= last'.b
                   /\ parent[r] \in boards => parent'[r] \in boards' \cup {NULL}]_vars

\* last is a merge_boards call that ran (the route did not answer 400)
Merged(l) == l.op = "merge" /\ l.result = "ok"

\* C18 as stated: merge_boards(S, T) returns both counts, the number of items
\* of S that were not members of T and the number of direct children of S
\* re-parented to T.
C18_ReturnsBothCounts ==
    [][Merged(last')
       => last'.returned
             = <<Cardinality(ItemsOf(board_images, last'.b)
                                \ ItemsOf(board_images, last'.p)),
                 Cardinality({c \in boards : parent[c] = last'.b})>>]_vars

\* C18 amended: merge_boards(S, T) returns one count, the number of rows it
\* inserted into T, which is the number of items of S that were not members
\* of T; the number of re-parented children is not part of what it returns.
C18_ReturnsItemCount ==
    [][Merged(last')
       => (/\ last'.returned
                 = <<Cardinality(ItemsOf(board_images, last'.b)
                                    \ ItemsOf(board_images, last'.p))>>
           /\ last'.returned[1]
                 = Cardinality(ItemsOf(board_images', last'.p)
                                  \ ItemsOf(board_images, last'.p)))]_vars

C18_Witness ==
    /\ Merged(last) /\ last.returned = <<1>> /\ last.subs = 1
    /\ last.p \in boards
    /\ \E c \in boards : parent[c] = last.p
    /\ ItemsOf(board_images, last.p) /= {}

NamesMissingBoard(l, bs) ==
    \/ l.op \in {"add", "move", "merge"} /\ l.b \notin bs
    \/ l.op \in {"move", "merge"} /\ l.p /= NULL /\ l.p \notin bs

\* C20: add_image_to_board, move_board and merge_boards called with a board
\* id that is not in the boards table fail with the not-found error and
\* change nothing: no membership row and no parent pointer for a board that
\* does not exist.
C20_MissingBoardRejected ==
    [][NamesMissingBoard(last', boards)
       => (/\ last'.result = "NotFoundError"
           /\ boards' = boards /\ parent' = parent
           /\ board_images' = board_images)]_vars

\* ================================================ calls in flight together
\* requests are served side by side (and the Telegram bot works on the same
\* database file); every database method opens a connection of its own and
\* takes no lock: last.calls holds the calls in flight, each at its next
\* statement.  A statement with its commit is one step: SQLite
\* lets one writer in at a time and the others wait (timeout = 30.0).
Workers == 1..MaxWorkers

InFlight == DOMAIN last.calls
Quiet == last.calls = <<>>

call_set(calls, w, c) ==
    [x \in DOMAIN calls \cup {w} |-> IF x = w THEN c ELSE calls[x]]
call_drop(calls, w) == [x \in DOMAIN calls \ {w} |-> calls[x]]

\* ------------------------------------------------ add_image_to_board, stepwise
\* the call is entered
add_image_begin(w, board_id, image_id) ==
    /\ last' = [last EXCEPT !.calls = call_set(@, w,
                   [op |-> "add", pc |-> "insert", b |-> board_id,
                    item |-> image_id, parent_ids |-> <<>>, skipped |-> {},
                    result |-> ""])]
    /\ UNCHANGED <<boards, parent, board_images, next_id, smart_rules, images>>

\* except sqlite3.IntegrityError taken as the end of the call
on_integrity_error_raise(c, board_id) ==
    [c EXCEPT !.pc = "done", !.result = "IntegrityError",
              !.skipped = @ \cup {board_id}]

\* except sqlite3.IntegrityError: pass; skipped collects the boards whose
\* INSERT was refused
on_integrity_error(c, board_id) == [c EXCEPT !.skipped = @ \cup {board_id}]

\* any other exception of the INSERT (sqlite3.OperationalError: database is
\* locked, disk I/O error) is not caught: finally closes the connection and
\* the exception leaves add_image_to_board
on_other_error(c) == [c EXCEPT !.pc = "done", !.result = "OperationalError"]

\* the first INSERT with its commit; IntegrityError is passed over
add_image_insert(w) ==
    LET c == last.calls[w]
        ins == insert_board_image(board_images, c.b, c.item)
        after == IF ins.ok THEN c ELSE on_integrity_error(c, c.b)
    IN  /\ board_images' = ins.bi
        /\ last' = [last EXCEPT !.calls = call_set(@, w,
                       IF after.pc = "done" THEN after
                       ELSE [after EXCEPT !.pc = "parents"])]
        /\ UNCHANGED <<boards, parent, next_id, smart_rules, images>>

\* parent_ids = self.get_parent_boards(board_id)
add_image_parents(w) ==
    LET c == last.calls[w]
    IN  /\ last' = [last EXCEPT !.calls = call_set(@, w,
                       [c EXCEPT !.pc = "cascade",
                                 !.parent_ids = get_parent_boards(c.b, parent, boards)])]
        /\ UNCHANGED <<boards, parent, board_images, next_id, smart_rules, images>>

\* one round of the for loop over parent_ids, or the end of the call
add_image_cascade(w) ==
    LET c == last.calls[w]
    IN  IF c.parent_ids = <<>>
        THEN /\ last' = [last EXCEPT !.calls = call_set(@, w,
                            [c EXCEPT !.pc = "done", !.result = "ok"])]
             /\ UNCHANGED <<boards, parent, board_images, next_id, smart_rules, images>>
        ELSE LET ins == insert_board_image(board_images, Head(c.parent_ids), c.item)
                 after == IF ins.ok THEN c
                          ELSE on_integrity_error(c, Head(c.parent_ids))
             IN  /\ board_images' = ins.bi
                 /\ last' = [last EXCEPT !.calls = call_set(@, w,
                                IF after.pc = "done" THEN after
                                ELSE [after EXCEPT !.parent_ids = Tail(@)])]
                 /\ UNCHANGED <<boards, parent, next_id, smart_rules, images>>

\* the INSERT for a parent fails with an exception other than IntegrityError
add_image_fails(w) ==
    /\ last' = [last EXCEPT !.calls = call_set(@, w, on_other_error(last.calls[w]))]
    /\ UNCHANGED <<boards, parent, board_images, next_id, smart_rules, images>>

\* the caller of worker w has received the outcome
call_return(w) ==
    /\ last' = [last EXCEPT !.calls = call_drop(@, w)]
    /\ UNCHANGED <<boards, parent, board_images, next_id, smart_rules, images>>

\* ------------------------------------------------ specification SpecFaults
\* one add_image_to_board call at a time, statement by statement, on the
\* trees create builds; the INSERT for a parent can fail for a reason of the
\* database file
FaultsCreateBoard == Quiet /\ CreateBoard
FaultsReturn == Quiet /\ Return
FaultsAddBegin ==
    /\ Idle /\ Quiet
    /\ \E b \in boards, i \in Items : add_image_begin(1, b, i)
FaultsInsert == \E w \in InFlight : last.calls[w].pc = "insert" /\ add_image_insert(w)
FaultsParents == \E w \in InFlight : last.calls[w].pc = "parents" /\ add_image_parents(w)
FaultsCascade == \E w \in InFlight : last.calls[w].pc = "cascade" /\ add_image_cascade(w)
FaultsInsertFails ==
    \E w \in InFlight :
       /\ last.calls[w].pc = "cascade" /\ last.calls[w].parent_ids /= <<>>
       /\ add_image_fails(w)
FaultsAddReturn == \E w \in InFlight : last.calls[w].pc = "done" /\ call_return(w)

NextFaults ==
    \/ FaultsCreateBoard
    \/ FaultsReturn
    \/ FaultsAddBegin
    \/ FaultsInsert
    \/ FaultsParents
    \/ FaultsCascade
    \/ FaultsInsertFails
    \/ FaultsAddReturn

SpecFaults == Init /\ [][NextFaults]_vars

\* ------------------------------------------------ specification SpecAdders
\* one chain of boards is built, then add_image_to_board calls for its
\* newest board run together
AddersCreateBoard == Quiet /\ DeepCreateBoard
AddersReturn == Quiet /\ Return
AddBegin ==
    /\ Idle
    /\ \E w \in Workers \ InFlight, b \in {next_id - 1} \cap boards, i \in Items :
          add_image_begin(w, b, i)
AddInsert == \E w \in InFlight : last.calls[w].pc = "insert" /\ add_image_insert(w)
AddParents == \E w \in InFlight : last.calls[w].pc = "parents" /\ add_image_parents(w)
AddCascade == \E w \in InFlight : last.calls[w].pc = "cascade" /\ add_image_cascade(w)
AddReturn == \E w \in InFlight : last.calls[w].pc = "done" /\ call_return(w)

NextAdders ==
    \/ AddersCreateBoard
    \/ AddersReturn
    \/ AddBegin
    \/ AddInsert
    \/ AddParents
    \/ AddCascade
    \/ AddReturn

SpecAdders == Init /\ [][NextAdders]_vars

\* ---------------------------------------------------------------- C21
\* every call in flight has run to its end and none has returned yet
AllDone(calls) == calls /= <<>> /\ \A w \in DOMAIN calls : calls[w].pc = "done"
\* two or more calls, all for the same (board, item) pair
SamePair(calls) ==
    /\ Cardinality(DOMAIN calls) >= 2
    /\ \A v \in DOMAIN calls, w \in DOMAIN calls :
          calls[v].op = "add" /\ calls[v].b = calls[w].b /\ calls[v].item = calls[w].item

\* C21: when add_image_to_board calls for one (board, item) pair ran
\* together, in whatever order their statements interleaved, then at the end
\* the pair and every (ancestor, item) pair have exactly one row and every
\* call returned without an error.
C21_ConcurrentAddsOneRow ==
    (AllDone(last.calls) /\ SamePair(last.calls))
    => \A w \in InFlight :
          /\ last.calls[w].result = "ok"
          /\ \A a \in {last.calls[w].b} \cup Ancestors(last.calls[w].b, parent, boards) :
                Rows(board_images, a, last.calls[w].item) = 1

\* ------------------------------------------------ move_board, stepwise
\* the call is entered
move_begin(w, board_id, new_parent_id) ==
    /\ last' = [last EXCEPT !.calls = call_set(@, w,
                   [op |-> "move", pc |-> "check", b |-> board_id,
                    p |-> new_parent_id, result |-> ""])]
    /\ UNCHANGED <<boards, parent, board_images, next_id, smart_rules, images>>

\* the two checks before the UPDATE, read in one go from the table as it is
\* now; no transaction is open and no lock is held when they are done
move_check(w) ==
    LET c == last.calls[w]
        result == move_board_result(c.b, c.p, parent, boards)
    IN  /\ last' = [last EXCEPT !.calls = call_set(@, w,
                       IF result = "ok" THEN [c EXCEPT !.pc = "update"]
                       ELSE [c EXCEPT !.pc = "done", !.result = result])]
        /\ UNCHANGED <<boards, parent, board_images, next_id, smart_rules, images>>

\* UPDATE boards SET parent_id = ? WHERE id = ? and the commit
move_update(w) ==
    LET c == last.calls[w]
    IN  /\ parent' = update_parent(parent, boards, c.b, c.p)
        /\ last' = [last EXCEPT !.calls = call_set(@, w,
                       [c EXCEPT !.pc = "done", !.result = "ok"])]
        /\ UNCHANGED <<boards, board_images, next_id, smart_rules, images>>

\* ------------------------------------------------ specification SpecMovers
\* boards are created one call at a time, then move_board calls run together
MoversCreateBoard == Quiet /\ CreateBoard
MoversReturn == Quiet /\ Return
MoveBegin ==
    /\ Idle
    /\ \E w \in Workers \ InFlight, b \in boards, p \in {NULL} \cup boards :
          move_begin(w, b, p)
MoveCheck == \E w \in InFlight : last.calls[w].pc = "check" /\ move_check(w)
MoveUpdate == \E w \in InFlight : last.calls[w].pc = "update" /\ move_update(w)
MoveReturn == \E w \in InFlight : last.calls[w].pc = "done" /\ call_return(w)

NextMovers ==
    \/ MoversCreateBoard
    \/ MoversReturn
    \/ MoveBegin
    \/ MoveCheck
    \/ MoveUpdate
    \/ MoveReturn

SpecMovers == Init /\ [][NextMovers]_vars

\* ---------------------------------------------------------------- C22
\* two calls in flight that moved each board under the other, both with success
CrossedMoves(calls) ==
    \E v \in DOMAIN calls, w \in DOMAIN calls :
       /\ v /= w /\ calls[v].op = "move" /\ calls[w].op = "move"
       /\ calls[v].b = calls[w].p /\ calls[v].p = calls[w].b
       /\ calls[v].result = "ok" /\ calls[w].result = "ok"

\* C22: whatever the interleaving of move_board calls in flight together,
\* the parent relation stays a forest, and move_board(A, B) together with
\* move_board(B, A) never both succeed.
C22_MovesSerialized ==
    /\ \A b \in boards : b \notin Ancestors(b, parent, boards)
    /\ ~CrossedMoves(last.calls)

\* ---------------------------------------------------------------- C26
\* C26: when the evaluation of one board's rule set raises during the scan,
\* the scan still goes through the other rule-bearing boards: it returns
\* without an error and reports exactly the boards whose rules match, those
\* before and those after the failing board, each with a row for the item.
C26_ScanErrorContained ==
    [][(/\ last'.op = "scan"
        /\ \E b \in DOMAIN smart_rules :
              rules_raise(smart_rules[b], tag_set(images[last'.item].tags)))
       => (/\ last'.result = "ok"
           /\ Range(last'.matched) = MatchingBoards(smart_rules, images[last'.item])
           /\ \A m \in MatchingBoards(smart_rules, images[last'.item]) :
                 Rows(board_images', m, last'.item) >= 1)]_vars

\* ---------------------------------------------------------------- C23
\* C23: in a categorization the suggestion collaborator is called before
\* anything is written: when it is called, the categorization has inserted
\* no row of board_images and created no board (no lock and no write
\* transaction exist to be held: every database call commits and closes its
\* connection before it returns).
C23_SuggestionBeforeMutation ==
    [][(Categorized(last') /\ last'.asked)
       => last'.at_call = board_images]_vars

\* ---------------------------------------------------------------- C24
\* the board k parent hops above b
RECURSIVE Hop(_, _)
Hop(b, k) == IF k = 0 THEN b ELSE parent[Hop(b, k - 1)]

\* k hops can be followed from b: each board on the way exists and has a parent
CanHop(b, k) ==
    \A j \in 0..(k - 1) : Hop(b, j) \in boards /\ parent[Hop(b, j)] /= NULL

\* C24: get_parent_boards(B) returns on every board table, a parent cycle or
\* a chain of more than max_depth boards included: the list has at most
\* max_depth entries, its k-th entry is the board k hops above B (nearest
\* parent first), and it is shorter than max_depth only where the walk ends.
C24_ParentWalkBounded ==
    last.op = "parents"
    => /\ Len(last.returned) <= max_depth
       /\ \A k \in 1..Len(last.returned) :
             CanHop(last.b, k) /\ last.returned[k] = Hop(last.b, k)
       /\ Len(last.returned) < max_depth => ~CanHop(last.b, Len(last.returned) + 1)

\* a walk on a parent cycle that was cut off at max_depth hops
C24_Witness ==
    /\ last.op = "parents"
    /\ last.b \in Ancestors(last.b, parent, boards)
    /\ Len(last.returned) = max_depth

\* ---------------------------------------------------------------- C25
\* C25 as stated: whatever the failure of an INSERT of the cascade, the call
\* ends without an error and with a row for every board of parent_ids.
C25_AnyFailureContained ==
    \A w \in InFlight :
       (last.calls[w].op = "add" /\ last.calls[w].pc = "done")
       => /\ last.calls[w].result = "ok"
          /\ \A a \in Range(get_parent_boards(last.calls[w].b, parent, boards)) :
                Rows(board_images, a, last.calls[w].item) >= 1

\* C25 amended: the cascade takes the boards of get_parent_boards one INSERT
\* at a time, nearest parent first; an INSERT refused as a duplicate changes
\* nothing, raises nothing and is followed by the next ancestor, and a call
\* that ends without an error has a row for every board of the list.  (Any
\* other failure of an INSERT ends the call with that exception.)
C25_DuplicateContained ==
    [][\A w \in InFlight \cap DOMAIN last'.calls :
          LET c == last.calls[w]
              d == last'.calls[w]
              walk == get_parent_boards(c.b, parent, boards)
          IN  (c.op = "add" /\ c.pc = "cascade" /\ d /= c)
              => /\ \E k \in 0..Len(walk) :
                       c.parent_ids = SubSeq(walk, k + 1, Len(walk))
                 /\ (c.parent_ids /= <<>> /\ d.result /= "OperationalError")
                    => /\ d.pc = "cascade" /\ d.result = ""
                       /\ d.parent_ids = Tail(c.parent_ids)
                       /\ Rows(board_images', Head(c.parent_ids), c.item) = 1
                       /\ \A k \in DOMAIN board_images' \ {<<Head(c.parent_ids), c.item>>} :
                             k \in DOMAIN board_images
                       /\ d.skipped /= c.skipped <=> board_images' = board_images
                 /\ (d.pc = "done" /\ d.result = "ok")
                    => \A a \in Range(walk) : Rows(board_images, a, c.item) = 1]_vars

\* a cascade in which the INSERT for the nearest parent was refused as a
\* duplicate and the INSERT for the next parent added a row
C25_Witness ==
    \E w \in InFlight :
       LET c == last.calls[w]
           walk == get_parent_boards(c.b, parent, boards)
       IN  /\ c.op = "add" /\ c.pc = "done" /\ c.result = "ok"
           /\ Len(walk) >= 2
           /\ walk[1] \in c.skipped /\ walk[2] \notin c.skipped
           /\ Rows(board_images, walk[2], c.item) = 1

\* ---------------------------------------------------------------- C27
\* the tag list has a tag
HasTags(rule_tags) == \E u \in rule_tags : u /= <<>>

\* description_contains is given and occurs in the description, whatever the case
DescriptionOccurs(image, rules) ==
    /\ rules.description_contains /= <<>>
    /\ contains(lower(image.description), lower(rules.description_contains))

\* the condition of C27 for one rule set and one item
ShouldMatch(rules, image) ==
    /\ ~SharesTag(image.tags, rules.tags_exclude)
    /\ ~HasTags(rules.tags_all) \/ HasAllTags(image.tags, rules.tags_all)
    /\ \/ SharesTag(image.tags, rules.tags_include)
       \/ DescriptionOccurs(image, rules)
       \/ HasTags(rules.tags_all) /\ HasAllTags(image.tags, rules.tags_all)

\* C27: the scan matches a board exactly when no tag of the item is in
\* tags_exclude, tags_all is absent or contained in the item's tags, and one
\* clause matches (tags_include shares a tag, description_contains occurs in
\* the description, or a present tags_all is satisfied); tags are compared
\* case-insensitively after trimming, the description case-insensitively.  A
\* rule set without tags_include, tags_all and description_contains never
\* matches.
C27_MatchCondition ==
    last.op = "scan"
    => \A b \in DOMAIN smart_rules :
          /\ b \in Range(last.matched) <=> ShouldMatch(smart_rules[b], images[last.item])
          /\ (/\ ~HasTags(smart_rules[b].tags_include)
              /\ ~HasTags(smart_rules[b].tags_all)
              /\ smart_rules[b].description_contains = <<>>)
             => b \notin Range(last.matched)

\* a scan that matched one board through description_contains alone, in
\* another case than the description's, and passed over a board without clauses
C27_Witness ==
    /\ last.op = "scan"
    /\ \E b \in Range(last.matched) :
          /\ ~SharesTag(images[last.item].tags, smart_rules[b].tags_include)
          /\ ~HasTags(smart_rules[b].tags_all)
          /\ DescriptionOccurs(images[last.item], smart_rules[b])
          /\ ~contains(images[last.item].description, smart_rules[b].description_contains)
    /\ \E b \in DOMAIN smart_rules \ Range(last.matched) :
          /\ ~HasTags(smart_rules[b].tags_include)
          /\ ~HasTags(smart_rules[b].tags_all)
          /\ smart_rules[b].description_contains = <<>>

\* ---------------------------------------------------------------- C28
\* C28: in every reachable state every row of board_images names a board
\* that exists: deleting a board, alone, with its sub-boards or as the source
\* of a merge, removes the rows of the deleted boards.
C28_RowsReferToBoards == \A k \in DOMAIN board_images : k[1] \in boards

\* ---------------------------------------------------------------- C29
\* C29: in every state that create_board, move_board, merge_boards and
\* delete_board calls lead to, _get_all_sub_boards comes to an end by
\* itself: no move_board and no delete_board with delete_sub_boards recurses
\* until the interpreter cuts the recursion off.
C29_EnumerationTerminates ==
    last.op \in {"move", "delete"} => last.result /= "RecursionError"

\* ---------------------------------------------------------------- C30
\* C30: when the Telegram user has selected board X for a video and the
\* download ends with gallery id V, the row (X, V) exists afterwards, and a
\* row (A, V) for every parent A of X that the cascade reaches: the video is
\* in the board that the success message names.
C30_VideoInSelectedBoard ==
    (/\ last.op = "telegram" /\ last.result = "complete"
     /\ last.b \in boards /\ last.item /= 0)
    => /\ Rows(board_images, last.b, last.item) >= 1
       /\ \A a \in Range(get_parent_boards(last.b, parent, boards)) :
             Rows(board_images, a, last.item) >= 1

====
